---- MODULE Spec2Model ----
(***************************************************************************)
(* Apple App Store Server Notification webhook: the reconciler              *)
(* (NotificationProcessor), the subscription store it writes to and the     *)
(* HTTP boundary (apple_webhook) that calls it.                             *)
(*                                                                          *)
(* A delivery is one call of apple_webhook.  It is modelled as a process    *)
(* whose steps are the calls of the handler (verifier, normaliser,          *)
(* reconciler), the verifier's fetches of keys and the reconciler's         *)
(* database operations (one query or one commit each), so that deliveries   *)
(* handled by different workers interleave between database operations.     *)
(* The notification is an immutable input: each of its fields is bound by   *)
(* the step that first uses it.  The verification of the signed             *)
(* transaction and renewal info inside the reconciler is not followed into  *)
(* the key cache by the deliveries; _extract_transaction_info and the        *)
(* normaliser are applied to structured payloads in a specification of      *)
(* their own (SpecFunctions).                                                *)
(***************************************************************************)
EXTENDS Integers, Sequences, FiniteSets, TLC

\* ------------------------------------------------------------------ bounds
MaxDeliveries == 2
MaxWorkers == 2

Deliveries == 1..MaxDeliveries

\* ------------------------------------------------------------------ values
Uuids == {"u1", "u2"}
NoUuid == ""
TxnIds == {"T1", "T2"}
NoTxn == ""

\* SubscriptionStatus
Statuses ==
    {"ACTIVE", "EXPIRED", "IN_GRACE_PERIOD", "IN_BILLING_RETRY", "REVOKED", "REFUNDED"}

\* NotificationType
NotificationTypes ==
    {"SUBSCRIBED", "DID_CHANGE_RENEWAL_PREF", "DID_CHANGE_RENEWAL_STATUS",
     "OFFER_REDEEMED", "DID_RENEW", "EXPIRED", "DID_FAIL_TO_RENEW",
     "GRACE_PERIOD_EXPIRED", "PRICE_INCREASE", "REFUND", "REFUND_DECLINED",
     "CONSUMPTION_REQUEST", "RENEWAL_EXTENDED", "REVOKE", "TEST"}

\* The notificationType strings a payload may carry: the enum's values, an
\* absent field ("") and a string that is no member of the enum.
TypeStrings == NotificationTypes \cup {"", "NOT_A_TYPE"}

\* The subtype strings a payload may carry ("" is an absent field).
Subtypes == {"", "GRACE_PERIOD", "BILLING_RETRY"}

\* notificationType and subtype of the payloads delivered: every type string,
\* and every subtype for the one type whose handling reads it.
TypeInputs ==
    {ts \in TypeStrings \X Subtypes : ts[2] = "" \/ ts[1] = "DID_FAIL_TO_RENEW"}

\* autoRenewStatus of the transaction info.
AutoRenewInputs == {"absent", "true", "false"}

\* expiresDate of the transaction info, in milliseconds; 0 is an absent field.
ExpiresInputs == {0, 1}

\* The key ids of the issuer's signing keys; a key is named by its id.
Kids == {"k1", "k2"}
NoKid == ""
Undecodable == "undecodable"

\* What the payload segment of a signed token decodes to: a JSON object with
\* notificationType ("notification"), one without it but with data or summary
\* ("envelope"; "opaque_data" when its data is a string that is not JSON and a
\* signed field or summary stands beside it), a JSON object with none of the
\* three ("plain"), JSON that is no object and in which `in` finds data or
\* summary, as a string or an array that holds the word ("marker_text"), or
\* nothing that json.loads accepts (JSON that is no object and holds none of
\* the names is handled like it everywhere).
PayloadKinds ==
    {"notification", "envelope", "opaque_data", "plain", "marker_text", Undecodable}

\* The payload kinds that are JSON objects, and are not empty.
MappingKinds == {"notification", "envelope", "opaque_data", "plain"}

\* The alphabet of the payload segment: a segment written with the characters
\* that base64 and base64url share, or one that holds '-' or '_'.
Encodings == {"base64", "base64url"}

\* A signed token: the number of its dot-separated segments, its payload
\* segment, the kid of its header (NoKid: a header without kid; Undecodable: a
\* header that does not decode), the key its signature verifies under and the
\* alphabet of its payload segment.
Tokens ==
    [segs : {1, 2, 3}, payload : PayloadKinds,
     kid : Kids \cup {NoKid, Undecodable}, signer : Kids \cup {"forged"},
     enc : Encodings]

NoToken == [segs |-> 0, payload |-> "", kid |-> NoKid, signer |-> "", enc |-> ""]

\* The key sets the issuer's endpoint may answer with.
KeySets == SUBSET Kids

\* Tokens that need no key: a notification as the issuer sends it, an envelope
\* the normaliser fails on, and a string that is no token.
KeylessTokens ==
    {[segs |-> 3, payload |-> "notification", kid |-> NoKid, signer |-> "forged",
      enc |-> "base64"],
     [segs |-> 3, payload |-> "opaque_data", kid |-> NoKid, signer |-> "forged",
      enc |-> "base64"],
     [segs |-> 1, payload |-> Undecodable, kid |-> NoKid, signer |-> "forged",
      enc |-> "base64"]}

\* The inputs a specification draws from: the payload fields, the signed
\* tokens and the key sets served.
AllInputs ==
    [types |-> TypeInputs, exps |-> ExpiresInputs, autos |-> AutoRenewInputs,
     tokens |-> KeylessTokens, keysets |-> {}]

\* Two tokens, one that needs no key and one that needs key k1, and every key
\* set: for the deliveries beside the connection test.
ConnectionInputs ==
    [types |-> {<<"EXPIRED", "">>}, exps |-> {1}, autos |-> {"true"},
     tokens |-> {tok \in Tokens :
                    /\ tok.segs = 3 /\ tok.enc = "base64"
                    /\ tok.payload \in {"notification", "plain"}
                    /\ tok.kid = "k1" /\ tok.signer = "k1"},
     keysets |-> KeySets]

\* A smaller choice, for the deliveries that run at the same time.
WorkerInputs ==
    [types |-> {<<"EXPIRED", "">>, <<"REFUND", "">>, <<"PRICE_INCREASE", "">>},
     exps |-> {1}, autos |-> {"true"},
     tokens |-> {tok \in KeylessTokens : tok.payload # "opaque_data"},
     keysets |-> {}]

\* Every token and key set, with few payload fields: for the verifier.
VerifierInputs ==
    [types |-> {<<"EXPIRED", "">>}, exps |-> {1}, autos |-> {"true"},
     tokens |-> Tokens, keysets |-> KeySets]

\* verify_jws gives up after this many attempts to fetch the keys.
MaxAttempts == 3

\* Exceptions
NoException == "none"

VARIABLES
    published,  \* the ids of the keys the issuer's endpoint serves
    connection, \* the response of the last test_apple_connection
    call,       \* the last application of a function to a structured payload
    key_cache,  \* AppleJWSVerifier._public_keys: the ids of the cached keys
    users,      \* table users: set of rows
    subs,       \* table subscriptions: set of rows
    records,    \* table notification_history: rows in commit order
    applied,    \* notification UUIDs whose subscription update is committed
    pc,         \* position of each delivery in the handler
    loc,        \* each delivery's local variables
    log_line,   \* the line that tells how the last handler to finish ended
    resp        \* HTTP status answered to each delivery (0: none yet)

vars ==
    <<published, connection, call, key_cache, users, subs, records, applied,
      pc, loc, log_line, resp>>

\* What the deliveries neither read nor write, but for the keys published.
Outside == <<published, connection, call>>

NoCall == [fn |-> "none"]
NoConnection == [status |-> "none", message |-> "none", missing |-> {}]

\* ConnectionTestResponse; missing are the names the message lists.
Response(status, message, missing) ==
    [status |-> status, message |-> message, missing |-> missing]

\* The settings test_apple_connection requires.
RequiredConfigs ==
    {"APPLE_PRIVATE_KEY_ID", "APPLE_TEAM_ID", "APPLE_BUNDLE_ID", "APPLE_ISSUER_ID"}

\* The required settings that are not set: none, one, all.
MissingConfigs == {{}, {"APPLE_ISSUER_ID"}, RequiredConfigs}

\* What test_apple_connection finds at APPLE_PRIVATE_KEY_PATH.
KeyFiles == {"not configured", "unreadable", "no private key", "private key"}

\* The locals of a delivery: the signed token and, in verify_jws, the fetch
\* attempts of the running get_apple_public_keys call and the forced refreshes
\* so far; the claims verified or normalised and the exception verify_jws
\* raised (why); the payload fields bound so far; the subscription held (sid),
\* and what the delivery has committed on the way (new_user, new_sub).
Unbound == [tok |-> NoToken, attempts |-> 0, refreshes |-> 0, claims |-> "",
            why |-> "", uuid |-> NoUuid, txn |-> NoTxn, sid |-> 0,
            auto |-> "absent", exp |-> 0, new_user |-> FALSE, new_sub |-> FALSE]

\* ------------------------------------------------------------------ models
\* Subscription.original_transaction_id is unique: an INSERT of a second row
\* with the same value fails.
SubscriptionInsertAllowedNoConstraint(table, txn) == TRUE

SubscriptionInsertAllowed(table, txn) == \A s \in table : s.txn # txn

\* NotificationHistory.notification_uuid is unique.
NotificationInsertAllowedNoConstraint(log, uuid) == TRUE

NotificationInsertAllowed(log, uuid) ==
    \A i \in DOMAIN log : log[i].uuid # uuid

\* User.email is unique.
UserInsertAllowed(table, email) == \A u \in table : u.email # email

\* ------------------------------------------------------------------ session
\* Session.commit: the pending writes of the session become durable together,
\* or, when the commit fails, none of them does.
CommitNotAtomic(pending, failed) ==
    IF failed THEN pending \ {"mutation"} ELSE pending

CommitKeepsMutation(pending, failed) ==
    IF failed THEN pending \ {"record"} ELSE pending

Commit(pending, failed) == IF failed THEN {} ELSE pending

\* ------------------------------------------------------------------ reconciler
\* _get_notification_type: the enum member named by the string, TEST for an
\* absent or unknown string.
get_notification_type_as_given(type_str) == type_str

get_notification_type(type_str) ==
    IF type_str # "" /\ type_str \in NotificationTypes THEN type_str ELSE "TEST"

\* The status _update_subscription_status puts into subscription_data for a
\* notification type and subtype; "" when it puts none.
NewStatusNoGraceExpired(ntype, subtype) ==
    CASE ntype = "SUBSCRIBED" -> "ACTIVE"
      [] ntype = "DID_RENEW" -> "ACTIVE"
      [] ntype = "DID_FAIL_TO_RENEW" ->
            IF subtype = "GRACE_PERIOD" THEN "IN_GRACE_PERIOD" ELSE "IN_BILLING_RETRY"
      [] ntype = "EXPIRED" -> "EXPIRED"
      [] ntype = "REFUND" -> "REFUNDED"
      [] ntype = "REVOKE" -> "REVOKED"
      [] OTHER -> ""

NewStatusDefaultActive(ntype, subtype) ==
    CASE ntype = "DID_FAIL_TO_RENEW" ->
            IF subtype = "GRACE_PERIOD" THEN "IN_GRACE_PERIOD" ELSE "IN_BILLING_RETRY"
      [] ntype = "EXPIRED" -> "EXPIRED"
      [] ntype = "GRACE_PERIOD_EXPIRED" -> "EXPIRED"
      [] ntype = "REFUND" -> "REFUNDED"
      [] ntype = "REVOKE" -> "REVOKED"
      [] OTHER -> "ACTIVE"

NewStatus(ntype, subtype) ==
    CASE ntype = "SUBSCRIBED" -> "ACTIVE"
      [] ntype = "DID_RENEW" -> "ACTIVE"
      [] ntype = "DID_FAIL_TO_RENEW" ->
            IF subtype = "GRACE_PERIOD" THEN "IN_GRACE_PERIOD" ELSE "IN_BILLING_RETRY"
      [] ntype = "EXPIRED" -> "EXPIRED"
      [] ntype = "GRACE_PERIOD_EXPIRED" -> "EXPIRED"
      [] ntype = "REFUND" -> "REFUNDED"
      [] ntype = "REVOKE" -> "REVOKED"
      [] OTHER -> ""

\* _extract_auto_renew_status: bool(transaction_info.get("autoRenewStatus", False)).
extract_auto_renew_status(auto) == auto = "true"

\* _update_subscription_status: the subscription_data mapping, as a record
\* whose has_* fields tell which keys it holds; first as it would be were the
\* expires date taken for every type.
subscription_data_any_type(ntype, subtype, exp, auto) ==
    [has_status |-> NewStatus(ntype, subtype) # "",
     status |-> NewStatus(ntype, subtype),
     has_expires |-> exp # 0,
     expires_date |-> exp,
     has_auto |-> TRUE,
     auto_renew_status |-> extract_auto_renew_status(auto)]

subscription_data(ntype, subtype, exp, auto) ==
    [has_status |-> NewStatus(ntype, subtype) # "",
     status |-> NewStatus(ntype, subtype),
     has_expires |-> ntype = "DID_RENEW" /\ exp # 0,
     expires_date |-> exp,
     has_auto |-> TRUE,
     auto_renew_status |-> extract_auto_renew_status(auto)]

\* SubscriptionService.update_subscription: setattr of every key of the data;
\* first as it would be were the data that of a creation, with all its keys.
ApplyDataOfCreation(row, data) ==
    [row EXCEPT
        !.status = IF data.has_status THEN data.status ELSE @,
        !.expires_date = IF data.has_expires THEN data.expires_date ELSE @,
        !.auto_renew_status = IF data.has_auto THEN data.auto_renew_status ELSE @,
        !.product_id = "unknown_product",
        !.environment = "Sandbox"]

\* The same setattr loop, were REVOKED, REFUNDED and EXPIRED final.
ApplyDataTerminal(row, data) ==
    [row EXCEPT
        !.status = IF data.has_status /\ @ \notin {"REVOKED", "REFUNDED", "EXPIRED"}
                   THEN data.status ELSE @,
        !.expires_date = IF data.has_expires THEN data.expires_date ELSE @,
        !.auto_renew_status = IF data.has_auto THEN data.auto_renew_status ELSE @]

ApplyData(row, data) ==
    [row EXCEPT
        !.status = IF data.has_status THEN data.status ELSE @,
        !.expires_date = IF data.has_expires THEN data.expires_date ELSE @,
        !.auto_renew_status = IF data.has_auto THEN data.auto_renew_status ELSE @]

\* The duplicate check of process_notification: a row with this UUID.
DuplicateExistsNever(log, uuid) == FALSE

DuplicateExistsAnyRow(log, uuid) == log # <<>>

DuplicateExists(log, uuid) == \E i \in DOMAIN log : log[i].uuid = uuid

\* ------------------------------------------------------------------ verifier
\* verify_jws: a token has exactly 3 segments.
ValidFormatTwoOrMore(tok) == tok.segs >= 2

ValidFormat(tok) == tok.segs = 3

\* The payload segment decoded as base64url, as jwt.decode does.
b64decode_url(tok) == tok.payload

\* base64.b64decode of the padded payload segment and json.loads of the
\* result.  The characters '-' and '_' of base64url are no characters of the
\* standard alphabet: b64decode drops them, and what is left does not decode.
b64decode(tok) == IF tok.enc = "base64" THEN tok.payload ELSE Undecodable

\* verify_jws: the payload segment decodes to JSON in which `in` finds
\* notificationType, data or summary.
HasMarkerNever(payload) == FALSE

HasMarker(payload) ==
    payload \in {"notification", "envelope", "opaque_data", "marker_text"}

\* get_apple_public_keys: `if cls._public_keys`, the cache is returned as it is.
CacheHitNever(cache) == FALSE

CacheHit(cache) == cache # {}

\* get_apple_public_keys: the keys of the response are put into the cache one
\* by one, each under its kid.
StoreKeys(cache, keys) == cache \cup keys

\* The retry of get_apple_public_keys: no attempt after MaxAttempts attempts.
stop_after_one_more(attempt_number) == attempt_number > MaxAttempts

stop_after_attempt(attempt_number) == attempt_number >= MaxAttempts

\* verify_jws: `kid not in public_keys`.
KeyMissingNever(kid, keys) == FALSE

KeyMissingAlways(kid, keys) == TRUE

KeyMissing(kid, keys) == kid \notin keys

\* jwt.decode of the token with one key: the claims, which are the JSON object
\* of the payload segment (decoded as base64url), or JWTError.
jwt_decode(tok, key) ==
    IF tok.signer = key /\ b64decode_url(tok) \in MappingKinds
    THEN b64decode_url(tok) ELSE "JWTError"

\* verify_jws, header without kid: jwt.decode with every key in turn, the claims
\* of the first that verifies, ValueError when none does.
decode_with_first_key(tok, keys) ==
    IF keys # {} /\ jwt_decode(tok, CHOOSE k \in keys : TRUE) # "JWTError"
    THEN jwt_decode(tok, CHOOSE k \in keys : TRUE)
    ELSE "ValueError"

decode_with_all_keys(tok, keys) ==
    IF \E k \in keys : jwt_decode(tok, k) # "JWTError"
    THEN LET k == CHOOSE k \in keys : jwt_decode(tok, k) # "JWTError"
         IN jwt_decode(tok, k)
    ELSE "ValueError"

\* ------------------------------------------------------------------ boundary
\* The boundary's direct decode of the payload segment after a failed
\* verification: base64 is no name of the module apple_webhook, so the decode
\* raises NameError when there are 2 segments or more, and ValueError is raised
\* otherwise.
direct_decode(tok) == IF tok.segs >= 2 THEN "NameError" ELSE "ValueError"

\* AppleJWSVerifier.parse_notification_payload on the claims: claims with
\* notificationType as they are, else the data mapping (empty when there is no
\* data) with the top-level signed fields and summary; the assignment of such a
\* field to data that is a string raises TypeError, and claims that are no
\* object have no get (AttributeError).
parse_notification_payload(claims) ==
    CASE claims = "notification" -> "notification"
      [] claims = "envelope" -> "data"
      [] claims = "plain" -> "empty"
      [] claims = "marker_text" -> "AttributeError"
      [] OTHER -> "TypeError"

\* The handler's outer `except Exception`.
CaughtOnlyValueError(exc) == exc = "ValueError"

CaughtButHTTPException(exc) == exc \in {"ValueError", "TypeError", "AttributeError"}

Caught(exc) == exc \in {"ValueError", "HTTPException", "TypeError", "AttributeError"}

\* The status answered when the handler body ends with exception exc.
http_status(exc) ==
    IF exc = NoException \/ Caught(exc) THEN 200
    ELSE IF exc = "HTTPException" THEN 400 ELSE 500

\* process_notification: `if not notification_uuid`.
MissingUuidNever(uuid) == FALSE

MissingUuid(uuid) == uuid = NoUuid

\* _get_or_create_subscription: `if not original_transaction_id`.
MissingTxnNever(txn) == FALSE

MissingTxn(txn) == txn = NoTxn

\* ------------------------------------------------------------------ state
Init ==
    /\ published = {}
    /\ connection = NoConnection
    /\ call = NoCall
    /\ key_cache = {}
    /\ users = {}
    /\ subs = {}
    /\ records = <<>>
    /\ applied = {}
    /\ pc = [d \in Deliveries |-> "idle"]
    /\ loc = [d \in Deliveries |-> Unbound]
    /\ log_line = "none"
    /\ resp = [d \in Deliveries |-> 0]

InFlight == {d \in Deliveries : pc[d] \notin {"idle", "done"}}

\* The handler returns: the response is produced and the locals are gone.
Finish(d, line, exc) ==
    /\ pc' = [pc EXCEPT ![d] = "done"]
    /\ loc' = [loc EXCEPT ![d] = Unbound]
    /\ log_line' = line
    /\ resp' = [resp EXCEPT ![d] = http_status(exc)]

Goto(d, where, l) ==
    /\ pc' = [pc EXCEPT ![d] = where]
    /\ loc' = [loc EXCEPT ![d] = l]
    /\ UNCHANGED <<log_line, resp>>

\* verify_jws returns claims to the handler.
Returns(d, l, claims) ==
    Goto(d, "parse", [l EXCEPT !.claims = claims, !.attempts = 0])

\* verify_jws raises ValueError; why is the exception it wraps.
Raises(d, l, why) ==
    Goto(d, "fallback", [l EXCEPT !.why = why, !.attempts = 0])

\* verify_jws: `cls._public_keys = {}`, the reset that forces a refresh; first
\* as it would be were the keys kept until new ones are there.
keep_keys(keys) == keys

reset_keys(keys) == {}

\* verify_jws from the point where get_apple_public_keys has returned keys, in
\* the first call (stage "fetch") or in the call after the cache was emptied
\* (stage "refresh"): without kid every key is tried; with a kid the key is
\* looked up, a miss empties the cache and asks for the keys once more, a
\* second miss raises, and the key found is the one jwt.decode is given.
WithKeys(d, l, keys, stage) ==
    IF l.tok.kid = NoKid
    THEN /\ key_cache' = keys
         /\ IF decode_with_all_keys(l.tok, keys) = "ValueError"
            THEN Raises(d, l, "NoKeyVerifies")
            ELSE Returns(d, l, decode_with_all_keys(l.tok, keys))
    ELSE IF ~KeyMissing(l.tok.kid, keys)
    THEN /\ key_cache' = keys
         /\ IF jwt_decode(l.tok, l.tok.kid) = "JWTError"
            THEN Raises(d, l, "JWTError")
            ELSE Returns(d, l, jwt_decode(l.tok, l.tok.kid))
    ELSE IF stage # "refresh"
    THEN /\ key_cache' = reset_keys(keys)
         /\ Goto(d, "refresh", [l EXCEPT !.attempts = 0, !.refreshes = @ + 1])
    ELSE /\ key_cache' = keys
         /\ Raises(d, l, "KeyNotFound")

\* apple_webhook calls verify_jws on the signed payload: the format check, the
\* decode of the payload segment with the return of a payload that holds a
\* marker field, the decode of the header, and get_apple_public_keys, which
\* returns a cache that is not empty and has to fetch otherwise.
verify_jws(d, I) ==
    /\ pc[d] = "idle"
    /\ \A e \in Deliveries : e < d => pc[e] # "idle"
    /\ UNCHANGED <<users, subs, records, applied>>
    /\ \E tok \in I.tokens :
         LET l == [loc[d] EXCEPT !.tok = tok]
         IN IF ~ValidFormat(tok)
            THEN UNCHANGED key_cache /\ Raises(d, l, "InvalidFormat")
            ELSE IF HasMarker(b64decode(tok))
            THEN UNCHANGED key_cache /\ Returns(d, l, b64decode(tok))
            ELSE IF tok.kid = Undecodable
            THEN UNCHANGED key_cache /\ Raises(d, l, "HeaderError")
            ELSE IF CacheHit(key_cache)
            THEN WithKeys(d, l, key_cache, "fetch")
            ELSE UNCHANGED key_cache /\ Goto(d, "fetch", l)

\* get_apple_public_keys called by verify_jws: a cache that is not empty is
\* returned as it is; otherwise one attempt to fetch the keys.  A failed
\* attempt is retried until MaxAttempts have failed, then the failure is
\* raised; the keys of a successful attempt, which are the keys published, are
\* put into the cache and verify_jws goes on with them.
get_apple_public_keys(d) ==
    /\ pc[d] \in {"fetch", "refresh"}
    /\ UNCHANGED <<users, subs, records, applied>>
    /\ IF CacheHit(key_cache)
       THEN WithKeys(d, loc[d], key_cache, pc[d])
       ELSE \/ /\ UNCHANGED key_cache
               /\ IF ~stop_after_attempt(loc[d].attempts + 1)
                  THEN Goto(d, pc[d], [loc[d] EXCEPT !.attempts = @ + 1])
                  ELSE Raises(d, loc[d], "KeyFetchFailure")
            \/ WithKeys(d, loc[d], StoreKeys(key_cache, published), pc[d])

\* The issuer changes the keys its endpoint serves.
rotate_keys(I) ==
    /\ \E keys \in I.keysets : published' = keys
    /\ published' # published
    /\ UNCHANGED <<connection, call, key_cache, users, subs, records, applied,
                   pc, loc, log_line, resp>>

\* apple_webhook after verify_jws has raised ValueError: the direct decode of
\* the payload segment; every exception of it becomes HTTPException(400).
decode_directly(d) ==
    /\ pc[d] = "fallback"
    /\ UNCHANGED <<key_cache, users, subs, records, applied>>
    /\ IF direct_decode(loc[d].tok) \in {"NameError", "ValueError"}
       THEN Finish(d, "Failed to extract payload directly", "HTTPException")
       ELSE Goto(d, "parse", [loc[d] EXCEPT !.claims = direct_decode(loc[d].tok)])

\* apple_webhook calls parse_notification_payload on the claims; the result is
\* what process_notification is called with.  The normalised payload holds the
\* notificationUUID (claims without marker field leave nothing to hold one).
normalise(d) ==
    /\ pc[d] = "parse"
    /\ UNCHANGED <<key_cache, users, subs, records, applied>>
    /\ LET data == parse_notification_payload(loc[d].claims)
       IN IF data \in {"TypeError", "AttributeError"}
          THEN Finish(d, "Error processing Apple notification", data)
          ELSE \E uuid \in Uuids \cup {NoUuid} :
                 /\ data = "empty" => uuid = NoUuid
                 /\ Goto(d, "process", [loc[d] EXCEPT !.claims = data, !.uuid = uuid])

\* process_notification up to its first database operation: the notification
\* type, UUID and subtype are read and a notification without UUID is left.
\* (The signed payload and the payload are only stored in the row from here on.)
process_notification(d) ==
    /\ pc[d] = "process"
    /\ UNCHANGED <<key_cache, users, subs, records, applied>>
    /\ IF MissingUuid(loc[d].uuid)
       THEN Finish(d, "Missing notificationUUID in payload", NoException)
       ELSE Goto(d, "dedup", [Unbound EXCEPT !.uuid = loc[d].uuid])

\* The handler as it would run were it no coroutine of the event loop but a
\* function of a thread pool: deliveries of one process in it at the same time.
apple_webhook_threaded(d, I) == verify_jws(d, I)

\* One server process (uvicorn.run without workers): the handler is a coroutine
\* that awaits nothing that suspends, so it runs to its end before the event
\* loop starts the next delivery.
apple_webhook(d, I) ==
    /\ InFlight = {}
    /\ verify_jws(d, I)

\* Several server processes on one database: up to MaxWorkers deliveries are
\* in the handler at the same time.
apple_webhook_worker(d, I) ==
    /\ Cardinality(InFlight) < MaxWorkers
    /\ verify_jws(d, I)

\* process_notification: the query for a NotificationHistory row with the
\* notification's UUID; when there is one the handler returns.
find_notification(d) ==
    /\ pc[d] = "dedup"
    /\ UNCHANGED <<key_cache, users, subs, records, applied>>
    /\ IF DuplicateExists(records, loc[d].uuid)
       THEN Finish(d, "Duplicate notification received", NoException)
       ELSE Goto(d, "lookup", loc[d])

\* _get_or_create_subscription: the transaction info of the payload (its
\* originalTransactionId, expiresDate and autoRenewStatus), and the lookup of
\* the subscription by the transaction id.
get_subscription(d, I) ==
    /\ pc[d] = "lookup"
    /\ UNCHANGED <<key_cache, users, subs, records, applied>>
    /\ \E txn \in TxnIds \cup {NoTxn} :
         IF MissingTxn(txn)
         THEN Finish(d, "No originalTransactionId found in transaction info",
                     NoException)
         ELSE \E exp \in I.exps, auto \in I.autos :
                LET l == [loc[d] EXCEPT !.txn = txn, !.exp = exp, !.auto = auto]
                IN IF \E s \in subs : s.txn = txn
                   THEN LET s == CHOOSE s \in subs : s.txn = txn
                        IN Goto(d, "update", [l EXCEPT !.sid = s.id])
                   ELSE Goto(d, "user", l)

\* _get_or_create_subscription: the query for any user.
find_user(d) ==
    /\ pc[d] = "user"
    /\ UNCHANGED <<key_cache, users, subs, records, applied>>
    /\ IF users # {}
       THEN Goto(d, "create", loc[d])
       ELSE Goto(d, "adduser", loc[d])

\* _get_or_create_subscription: the demo user is added and committed.  A
\* failure is caught by the method's own handler, which returns None.
create_user(d) ==
    /\ pc[d] = "adduser"
    /\ UNCHANGED <<key_cache, subs, records, applied>>
    /\ \E dbfail \in BOOLEAN :
         LET failed == dbfail \/ ~UserInsertAllowed(users, "demo@example.com")
             durable == Commit({"user"}, failed)
         IN IF "user" \in durable
            THEN /\ users' = users \cup {[email |-> "demo@example.com"]}
                 /\ Goto(d, "create", [loc[d] EXCEPT !.new_user = TRUE])
            ELSE /\ UNCHANGED users
                 /\ Finish(d, "Failed to get or create subscription", NoException)

\* The primary key of a new subscription row.
NewId(table) == Cardinality(table) + 1

\* The subscription_data of a new subscription and the row made from it.
\* (user_id is that of the first user, product_id, purchase_date and
\* environment are those of the transaction info the row is made from: one
\* value stands for each.)
new_subscription_retry(id, txn, exp, auto) ==
    [id |-> id, txn |-> txn, status |-> "IN_BILLING_RETRY", expires_date |-> exp,
     auto_renew_status |-> extract_auto_renew_status(auto),
     user_id |-> "demo@example.com", product_id |-> "productId",
     purchase_date |-> "purchaseDate", environment |-> "Production"]

new_subscription(id, txn, exp, auto) ==
    [id |-> id, txn |-> txn, status |-> "ACTIVE", expires_date |-> exp,
     auto_renew_status |-> extract_auto_renew_status(auto),
     user_id |-> "demo@example.com", product_id |-> "productId",
     purchase_date |-> "purchaseDate", environment |-> "Production"]

\* SubscriptionService.create_subscription with the data built by
\* _get_or_create_subscription: status ACTIVE, expires_date and
\* auto_renew_status from the transaction info; committed at once.  A failure
\* is rolled back and re-raised, and _get_or_create_subscription returns None.
\* (The user looked up by create_subscription is there: no user is deleted.)
create_subscription(d) ==
    /\ pc[d] = "create"
    /\ UNCHANGED <<key_cache, users, records, applied>>
    /\ \E dbfail \in BOOLEAN :
         LET failed == dbfail \/ ~SubscriptionInsertAllowed(subs, loc[d].txn)
             durable == Commit({"subscription"}, failed)
             row == new_subscription(NewId(subs), loc[d].txn, loc[d].exp, loc[d].auto)
         IN IF "subscription" \in durable
            THEN /\ subs' = subs \cup {row}
                 /\ Goto(d, "update", [loc[d] EXCEPT !.sid = row.id, !.new_sub = TRUE])
            ELSE /\ UNCHANGED subs
                 /\ Finish(d, "Failed to get or create subscription", NoException)

\* `if subscription_data:` of _update_subscription_status.
HasKeys(data) == data.has_status \/ data.has_expires \/ data.has_auto

\* process_notification: the NotificationHistory row of a notification, as the
\* column default of processed would leave it, and as it is made.
NotificationHistoryUnprocessed(uuid, sid, ntype, subtype, type_string) ==
    [uuid |-> uuid, sid |-> sid, ntype |-> ntype, subtype |-> subtype,
     processed |-> FALSE, processing_error |-> "None",
     raw_data |-> [notificationType |-> type_string]]

NotificationHistory(uuid, sid, ntype, subtype, type_string) ==
    [uuid |-> uuid, sid |-> sid, ntype |-> ntype, subtype |-> subtype,
     processed |-> TRUE, processing_error |-> "None",
     raw_data |-> [notificationType |-> type_string]]

\* The end of process_notification for delivery d carrying type and subtype ts,
\* expiresDate exp and autoRenewStatus auto (those of its transaction info).  The NotificationHistory row is
\* pending in the session.  With keys in subscription_data, update_subscription
\* sets them and commits, which carries the row too (dbfail: that commit
\* fails), and the final commit has nothing left to write (final_failed: it
\* fails); without keys the final commit carries the row.
CommitUpdate(d, ts, exp, auto, dbfail, final_failed) ==
    LET ntype == get_notification_type(ts[1])
        data == subscription_data(ntype, ts[2], exp, auto)
        row == NotificationHistory(loc[d].uuid, loc[d].sid, ntype, ts[2], ts[1])
        violation == ~NotificationInsertAllowed(records, loc[d].uuid)
        failed == IF HasKeys(data) THEN dbfail \/ violation
                  ELSE final_failed \/ violation
        durable == Commit({"record", "mutation"}, failed)
    IN /\ records' = IF "record" \in durable THEN Append(records, row) ELSE records
       /\ subs' = IF "mutation" \in durable
                  THEN {IF s.id = loc[d].sid THEN ApplyData(s, data) ELSE s : s \in subs}
                  ELSE subs
       /\ applied' = IF "mutation" \in durable
                     THEN applied \cup {loc[d].uuid} ELSE applied
       /\ Finish(d, IF failed \/ final_failed
                    THEN "Error processing notification"
                    ELSE "Processed notification", NoException)

\* process_notification from the NotificationHistory row to its end: the row is
\* added to the session, subscription_data is computed and set on the
\* subscription, the commit of update_subscription carries both, and the final
\* commit of process_notification has nothing left to write.
update_subscription(d, I) ==
    /\ pc[d] = "update"
    /\ UNCHANGED <<key_cache, users>>
    /\ \/ CommitUpdate(d, <<"", "">>, loc[d].exp, loc[d].auto, TRUE, FALSE)
       \/ \E ts \in I.types, final_failed \in BOOLEAN :
            CommitUpdate(d, ts, loc[d].exp, loc[d].auto, FALSE, final_failed)

\* The steps of delivery d with the inputs I, but for its start and the fetch
\* of keys.
Step(d, I) ==
    \/ decode_directly(d)
    \/ normalise(d)
    \/ process_notification(d)
    \/ find_notification(d)
    \/ get_subscription(d, I)
    \/ find_user(d)
    \/ create_user(d)
    \/ create_subscription(d)
    \/ update_subscription(d, I)

\* One server process; the tokens delivered need no key.
Next ==
    /\ UNCHANGED Outside
    /\ \E d \in Deliveries :
        \/ apple_webhook(d, AllInputs)
        \/ Step(d, AllInputs)

Spec == Init /\ [][Next]_vars

\* Several server processes; the tokens delivered need no key (the key cache
\* is a class attribute, of which every process has its own).
NextWorkers ==
    /\ UNCHANGED Outside
    /\ \E d \in Deliveries :
        \/ apple_webhook_worker(d, WorkerInputs)
        \/ Step(d, WorkerInputs)

SpecWorkers == Init /\ [][NextWorkers]_vars

\* One server process; every token, and a key endpoint that serves any key set
\* or fails.
NextVerifier ==
    \/ /\ UNCHANGED Outside
       /\ \E d \in Deliveries :
            \/ apple_webhook(d, VerifierInputs)
            \/ get_apple_public_keys(d)
            \/ Step(d, VerifierInputs)
    \/ rotate_keys(VerifierInputs)

SpecVerifier == Init /\ [][NextVerifier]_vars

\* A step of a handler that has begun.  The handlers are coroutines of one
\* event loop and every call they make on the way (requests.get with its
\* timeout, the waits between the attempts, the database) returns, so a
\* handler that has begun goes on until it returns; when the next delivery
\* arrives and what the key endpoint answers is left open.
Handling ==
    /\ UNCHANGED Outside
    /\ \E d \in Deliveries :
         \/ get_apple_public_keys(d)
         \/ Step(d, VerifierInputs)

SpecVerifierFair == SpecVerifier /\ WF_vars(Handling)

\* ------------------------------------------------------------------ functions
\* get_apple_public_keys as one call: the cache it leaves, which is what it
\* returns, and whether it returns at all; up tells whether one of its attempts
\* to fetch succeeds.
public_keys(cache, served, up) ==
    IF CacheHit(cache) THEN [keys |-> cache, raised |-> FALSE]
    ELSE IF up THEN [keys |-> StoreKeys(cache, served), raised |-> FALSE]
    ELSE [keys |-> cache, raised |-> TRUE]

\* A value that is no string, where a signed token is expected, and a field
\* that is absent.
NotAString == [NoToken EXCEPT !.payload = "not_a_string"]
Absent == [NoToken EXCEPT !.payload = "absent"]

\* verify_jws as one call on the value of a signed field, with the keys served
\* and the fate of its two calls of get_apple_public_keys (up[1], up[2]): the
\* claims returned, "ValueError" when it raises, and the cache it leaves.
verify_jws_call(value, cache, served, up) ==
    LET first == public_keys(cache, served, up[1])
        second == public_keys({}, served, up[2])
        failed(keys) == [claims |-> "ValueError", cache |-> keys]
        decoded(claims, keys) ==
            [claims |-> IF claims = "JWTError" THEN "ValueError" ELSE claims,
             cache |-> keys]
    IN IF value = NotAString \/ ~ValidFormat(value) THEN failed(cache)
       ELSE IF HasMarker(b64decode(value))
       THEN [claims |-> b64decode(value), cache |-> cache]
       ELSE IF value.kid = Undecodable \/ first.raised THEN failed(cache)
       ELSE IF value.kid = NoKid
       THEN decoded(decode_with_all_keys(value, first.keys), first.keys)
       ELSE IF ~KeyMissing(value.kid, first.keys)
       THEN decoded(jwt_decode(value, value.kid), first.keys)
       ELSE IF second.raised THEN failed({})
       ELSE IF KeyMissing(value.kid, second.keys) THEN failed(second.keys)
       ELSE decoded(jwt_decode(value, value.kid), second.keys)

\* `x and isinstance(x, dict)` of _extract_transaction_info.
IsMappingAny(x) == TRUE

IsMapping(x) == x \in MappingKinds

\* _extract_transaction_info on one signed field of data: the claims verify_jws
\* returns when they are a mapping; when verify_jws raises, the payload segment
\* of a 3-segment string decoded by base64.b64decode when that is a mapping;
\* "" when the field gives nothing (every exception is caught and logged).
signed_info(value, cache, served, up) ==
    LET verified == verify_jws_call(value, cache, served, up)
        direct == IF value = NotAString \/ ~ValidFormat(value)
                      \/ b64decode(value) = Undecodable
                  THEN ""
                  ELSE IF IsMapping(b64decode(value)) THEN b64decode(value) ELSE ""
    IN [info |-> IF verified.claims = "ValueError" THEN direct
                 ELSE IF IsMapping(verified.claims) THEN verified.claims ELSE "",
        cache |-> verified.cache]

\* The payloads _extract_transaction_info is applied to: data is absent, no
\* mapping, or a mapping with its two signed fields, each absent, no string, a
\* string of 2 segments or one of 3.
SignedValues ==
    {Absent, NotAString} \cup
    {tok \in Tokens :
        /\ tok.segs \in {2, 3}
        /\ tok.payload \in {"plain", "envelope", "marker_text", Undecodable}
        /\ tok.kid \in {"k1", NoKid}
        /\ tok.signer \in {"k1", "forged"}
        /\ tok.segs = 2 => (tok.payload = "plain" /\ tok.kid = "k1"
                               /\ tok.signer = "k1" /\ tok.enc = "base64")}

Payloads ==
    {p \in [data : {"absent", "not_a_mapping", "mapping"},
            signedRenewalInfo : SignedValues,
            signedTransactionInfo : SignedValues] :
        p.data # "mapping" =>
            p.signedRenewalInfo = Absent /\ p.signedTransactionInfo = Absent}

\* _extract_transaction_info: the info of signedRenewalInfo, else that of
\* signedTransactionInfo, else the payload; with the cache the calls of
\* verify_jws leave.  ups are the fates of the fetches of the two calls.
extract_transaction_info(payload, cache, served, ups) ==
    LET renewal == IF payload.signedRenewalInfo = Absent
                   THEN [info |-> "", cache |-> cache]
                   ELSE signed_info(payload.signedRenewalInfo, cache, served, ups[1])
        transaction == IF payload.signedTransactionInfo = Absent
                       THEN [info |-> "", cache |-> renewal.cache]
                       ELSE signed_info(payload.signedTransactionInfo,
                                        renewal.cache, served, ups[2])
    IN IF payload.data # "mapping"
       THEN [from |-> "payload", info |-> "payload", cache |-> cache]
       ELSE IF renewal.info # ""
       THEN [from |-> "signedRenewalInfo", info |-> renewal.info,
             cache |-> renewal.cache]
       ELSE IF transaction.info # ""
       THEN [from |-> "signedTransactionInfo", info |-> transaction.info,
             cache |-> transaction.cache]
       ELSE [from |-> "payload", info |-> "payload", cache |-> transaction.cache]

\* The payloads of notifications whose data holds both signed fields, each a
\* token of 3 segments with a JSON object in its payload segment.
InfoPayloads ==
    {p \in Payloads :
        /\ p.data = "mapping"
        /\ \A value \in {p.signedRenewalInfo, p.signedTransactionInfo} :
              value \in Tokens /\ value.segs = 3 /\ b64decode_url(value) \in MappingKinds}

\* The fates of the fetches of one call of _extract_transaction_info: the key
\* endpoint answers during the call or it does not.
Fates == {[j \in 1..2 |-> [k \in 1..2 |-> up]] : up \in BOOLEAN}

\* The fields parse_notification_payload copies, in the order of its loop.
Fields == <<"signedRenewalInfo", "signedTransactionInfo", "summary">>
FieldNames == {Fields[i] : i \in DOMAIN Fields}

\* The names looked at in a mapping: these fields and the two the reconciler
\* reads first.
Names == FieldNames \cup {"notificationUUID", "notificationType"}

\* A mapping, as far as the three fields go: each is absent, or holds the value
\* data had for it ("data") or the one of the top level ("top").
Empty == [f \in Names |-> "absent"]

\* The claims parse_notification_payload is applied to: with notificationType
\* or without, the fields of the top level, and data: absent, a mapping, a
\* string that is the JSON of a mapping, a string that is no JSON ("opaque"),
\* or a string that is the JSON of something else ("json_other").
Claims ==
    {c \in [notificationType : BOOLEAN,
            top : SUBSET (FieldNames \cup {"notificationUUID"}),
            data : {"absent", "mapping", "json_mapping", "opaque", "json_other"},
            has : SUBSET Names] :
        c.data \notin {"mapping", "json_mapping"} => c.has = {}}

\* parse_notification_payload: `field not in notification_data`.  (A string
\* that is no JSON is taken not to hold the names of the fields.)
ContainsNever(notification_data, field) == FALSE

Contains(notification_data, field) ==
    notification_data.kind = "mapping" /\ notification_data.vals[field] # "absent"

\* parse_notification_payload: payload.get("data", {}), parsed when it is a
\* string of JSON.
data_of(claims) ==
    CASE claims.data = "absent" -> [kind |-> "mapping", vals |-> Empty]
      [] claims.data \in {"mapping", "json_mapping"} ->
            [kind |-> "mapping",
             vals |-> [f \in Names |->
                         IF f \in claims.has THEN "data" ELSE "absent"]]
      [] OTHER -> [kind |-> claims.data, vals |-> Empty]

\* parse_notification_payload: one turn of the loop over the fields.  The
\* assignment to what is no mapping raises TypeError.
copy_field(claims, notification_data, field) ==
    IF notification_data.kind = "TypeError" THEN notification_data
    ELSE IF field \in claims.top /\ ~Contains(notification_data, field)
    THEN IF notification_data.kind = "mapping"
         THEN [notification_data EXCEPT !.vals[field] = "top"]
         ELSE [kind |-> "TypeError", vals |-> Empty]
    ELSE notification_data

\* parse_notification_payload on structured claims: the payload itself when it
\* holds notificationType, else data after the loop.
notification_data(claims) ==
    IF claims.notificationType
    THEN [kind |-> "payload",
          vals |-> [f \in Names |->
                      IF f \in claims.top \/ f = "notificationType"
                      THEN "top" ELSE "absent"]]
    ELSE copy_field(claims,
            copy_field(claims,
                copy_field(claims, data_of(claims), Fields[1]), Fields[2]), Fields[3])

\* apple_webhook: what process_notification is given as decoded_payload; first
\* as it would be were it given the claims and not what the normaliser
\* returned.
decoded_payload_unparsed(claims) ==
    [kind |-> "payload",
     vals |-> [f \in Names |->
                 IF f \in claims.top \/ (f = "notificationType" /\ claims.notificationType)
                 THEN "top" ELSE "absent"]]

decoded_payload(claims) == notification_data(claims)

\* The notificationType a mapping holds, by where its value comes from, and
\* its notificationUUID.
type_string(where) ==
    CASE where = "data" -> "EXPIRED" [] where = "top" -> "REFUND" [] OTHER -> ""

uuid_string(where) == IF where = "absent" THEN NoUuid ELSE "u1"

\* process_notification up to `if not notification_uuid`: the type, the UUID
\* read from decoded_payload and what becomes of the notification.  (When the
\* normaliser raised, process_notification is not called; .get on what is no
\* mapping raises AttributeError, which is caught and logged.)
notification_read(payload) ==
    IF payload.kind = "TypeError"
    THEN [outcome |-> "not called", uuid |-> "absent", ntype |-> ""]
    ELSE IF payload.kind \notin {"mapping", "payload"}
    THEN [outcome |-> "AttributeError", uuid |-> "absent", ntype |-> ""]
    ELSE [outcome |-> IF MissingUuid(uuid_string(payload.vals["notificationUUID"]))
                      THEN "dropped" ELSE "goes on",
          uuid |-> payload.vals["notificationUUID"],
          ntype |-> get_notification_type(type_string(payload.vals["notificationType"]))]

\* NotificationProcessor._extract_transaction_info is applied to a payload.
call_extract_transaction_info ==
    /\ call = NoCall
    /\ \E payload \in Payloads, ups \in [1..2 -> [1..2 -> BOOLEAN]] :
         LET r == extract_transaction_info(payload, key_cache, published, ups)
         IN /\ call' = [fn |-> "extract_transaction_info", payload |-> payload,
                        cache |-> key_cache, out |-> [from |-> r.from, info |-> r.info]]
            /\ key_cache' = r.cache
    /\ UNCHANGED <<published, connection, users, subs, records, applied,
                   pc, loc, log_line, resp>>

\* process_notification reads the transaction info of one notification in
\* several calls of _extract_transaction_info, each of which verifies the
\* signed fields anew with the cache and the key endpoint as they are then.
\* The first is that of _get_or_create_subscription, for originalTransactionId.
call_get_or_create_subscription ==
    /\ call = NoCall
    /\ \E payload \in InfoPayloads, ups \in Fates :
         LET r == extract_transaction_info(payload, key_cache, published, ups)
         IN /\ call' = [fn |-> "transaction_infos", payload |-> payload,
                        cache |-> key_cache,
                        out |-> [subscription |-> r.from, expires_date |-> "",
                                 auto_renew_status |-> ""]]
            /\ key_cache' = r.cache
    /\ UNCHANGED <<published, connection, users, subs, records, applied,
                   pc, loc, log_line, resp>>

\* _update_subscription_status of a DID_RENEW: _extract_expires_date.
call_extract_expires_date ==
    /\ call.fn = "transaction_infos"
    /\ call.out.expires_date = "" /\ call.out.auto_renew_status = ""
    /\ \E ups \in Fates :
         LET r == extract_transaction_info(call.payload, key_cache, published, ups)
         IN /\ call' = [call EXCEPT !.out.expires_date = r.from]
            /\ key_cache' = r.cache
    /\ UNCHANGED <<published, connection, users, subs, records, applied,
                   pc, loc, log_line, resp>>

\* _update_subscription_status of every type: _extract_auto_renew_status.
call_extract_auto_renew_status ==
    /\ call.fn = "transaction_infos"
    /\ call.out.auto_renew_status = ""
    /\ \E ups \in Fates :
         LET r == extract_transaction_info(call.payload, key_cache, published, ups)
         IN /\ call' = [call EXCEPT !.out.auto_renew_status = r.from]
            /\ key_cache' = r.cache
    /\ UNCHANGED <<published, connection, users, subs, records, applied,
                   pc, loc, log_line, resp>>

\* AppleJWSVerifier.parse_notification_payload is applied to claims, and
\* process_notification reads what it is given.
call_parse_notification_payload ==
    /\ call = NoCall
    /\ \E claims \in Claims :
         call' = [fn |-> "parse_notification_payload", claims |-> claims,
                  out |-> notification_data(claims),
                  read |-> notification_read(decoded_payload(claims))]
    /\ UNCHANGED <<published, connection, key_cache, users, subs, records, applied,
                   pc, loc, log_line, resp>>

\* The function has returned.
return_from_call ==
    /\ call # NoCall
    /\ call' = NoCall
    /\ UNCHANGED <<published, connection, key_cache, users, subs, records, applied,
                   pc, loc, log_line, resp>>

\* The functions applied to every payload, with any cache and any keys
\* published.
NextFunctions ==
    \/ call_extract_transaction_info
    \/ call_get_or_create_subscription
    \/ call_extract_expires_date
    \/ call_extract_auto_renew_status
    \/ call_parse_notification_payload
    \/ return_from_call
    \/ rotate_keys(VerifierInputs)

SpecFunctions == Init /\ [][NextFunctions]_vars

\* ------------------------------------------------------------------ diagnostics
\* The check of the private key file by test_apple_connection.
private_key_check(key_file) ==
    CASE key_file = "not configured" ->
            Response("warning", "Private key path not configured", {})
      [] key_file = "unreadable" ->
            Response("error", "Could not read private key file", {})
      [] key_file = "no private key" ->
            Response("warning", "Private key file exists but may not be valid", {})
      [] OTHER -> Response("success", "Successfully connected to Apple servers", {})

\* test_apple_connection, a handler of the same server process: the settings
\* that are missing are reported at once; else get_apple_public_keys is called
\* (up: one of its attempts to fetch succeeds), then the private key file is
\* looked at.
test_apple_connection ==
    /\ InFlight = {}
    /\ UNCHANGED <<published, call, users, subs, records, applied,
                   pc, loc, log_line, resp>>
    /\ \E missing_configs \in MissingConfigs, up \in BOOLEAN,
          key_file \in KeyFiles :
         LET keys == public_keys(key_cache, published, up)
         IN IF missing_configs # {}
            THEN /\ UNCHANGED key_cache
                 /\ connection' =
                      Response("error", "Missing required Apple configuration",
                               missing_configs)
            ELSE /\ key_cache' = keys.keys
                 /\ connection' =
                      IF keys.raised
                      THEN Response("error", "Error connecting to Apple servers", {})
                      ELSE IF keys.keys = {}
                      THEN Response("error", "Could not fetch Apple public keys", {})
                      ELSE private_key_check(key_file)

\* One server process that serves deliveries and connection tests.
NextConnection ==
    \/ /\ UNCHANGED Outside
       /\ \E d \in Deliveries :
            \/ apple_webhook(d, ConnectionInputs)
            \/ get_apple_public_keys(d)
            \/ Step(d, ConnectionInputs)
    \/ rotate_keys(ConnectionInputs)
    \/ test_apple_connection

SpecConnection == Init /\ [][NextConnection]_vars

\* ------------------------------------------------------------------ claims
\* The delivery that takes the step.
Acts(d) == pc[d] # pc'[d]

\* The step of delivery d that appends its NotificationHistory row.
Appends(d) == Acts(d) /\ pc[d] = "update" /\ Len(records') = Len(records) + 1

LastRecord(log) == log[Len(log)]

HasRecord(log, uuid) == \E i \in DOMAIN log : log[i].uuid = uuid

\* The transition table of the design, by notification type and subtype;
\* "" for the types it does not list.
TableStatus(ntype, subtype) ==
    IF ntype \in {"SUBSCRIBED", "DID_RENEW"} THEN "ACTIVE"
    ELSE IF ntype = "DID_FAIL_TO_RENEW" /\ subtype = "GRACE_PERIOD" THEN "IN_GRACE_PERIOD"
    ELSE IF ntype = "DID_FAIL_TO_RENEW" THEN "IN_BILLING_RETRY"
    ELSE IF ntype \in {"EXPIRED", "GRACE_PERIOD_EXPIRED"} THEN "EXPIRED"
    ELSE IF ntype = "REFUND" THEN "REFUNDED"
    ELSE IF ntype = "REVOKE" THEN "REVOKED"
    ELSE ""

\* The notification types the transition table does not list.
UnlistedTypes ==
    {"DID_CHANGE_RENEWAL_PREF", "DID_CHANGE_RENEWAL_STATUS", "OFFER_REDEEMED",
     "PRICE_INCREASE", "REFUND_DECLINED", "CONSUMPTION_REQUEST",
     "RENEWAL_EXTENDED", "TEST"}

\* C1: in every reachable state, also when deliveries of several workers
\* interleave and commits fail, the notification log holds at most one row for
\* each notification UUID.
C1_OneRecordPerUuid ==
    \A i, j \in DOMAIN records : records[i].uuid = records[j].uuid => i = j

\* C1 witness: a delivery has passed the duplicate check and is about to commit
\* its row while a row with its UUID has been committed in the meantime.
C1_Witness ==
    \E d \in Deliveries : pc[d] = "update" /\ HasRecord(records, loc[d].uuid)

\* C2: a delivery whose UUID already has a row returns at the duplicate check
\* and changes nothing: every step that changes the store (a user, a
\* subscription or one of its fields, a row of the log) is taken by a delivery
\* whose UUID has no row, and a delivery whose UUID has a row when it is
\* checked ends there with the store as it was.
C2_Idempotent ==
    [][\A d \in Deliveries :
          /\ (Acts(d) /\ <<users, subs, records, applied>>' # <<users, subs, records, applied>>)
                => ~HasRecord(records, loc[d].uuid)
          /\ (Acts(d) /\ pc[d] = "dedup" /\ HasRecord(records, loc[d].uuid))
                => /\ pc'[d] = "done"
                   /\ <<users, subs, records, applied>>' = <<users, subs, records, applied>>
      ]_vars

\* C2 witness: a redelivery has been answered as a duplicate while the
\* subscription keeps the status of the first application.
C2_Witness ==
    /\ log_line = "Duplicate notification received"
    /\ Len(records) = 1
    /\ \E s \in subs : s.id = records[1].sid /\ s.status = "REVOKED"

C4_StatusFollowsTable ==
    [][\A d \in Deliveries :
          Appends(d) =>
            LET r == LastRecord(records')
            IN /\ r.uuid = loc[d].uuid
               /\ \E s \in subs' : s.id = r.sid
               /\ TableStatus(r.ntype, r.subtype) # "" =>
                    \A s \in subs' :
                        s.id = r.sid => s.status = TableStatus(r.ntype, r.subtype)
      ]_vars

\* C4 witness: a REVOKED subscription has been moved to IN_GRACE_PERIOD by a
\* DID_FAIL_TO_RENEW notification with subtype GRACE_PERIOD.
C4_Witness ==
    /\ Len(records) = 2
    /\ records[1].sid = records[2].sid
    /\ records[1].ntype = "REVOKE"
    /\ records[2].ntype = "DID_FAIL_TO_RENEW"
    /\ records[2].subtype = "GRACE_PERIOD"
    /\ \E s \in subs : s.id = records[2].sid /\ s.status = "IN_GRACE_PERIOD"

\* C5: when a delivery commits a row whose type the transition table does not
\* list, the status of the subscription is the one it had before.
C5_UnlistedTypeKeepsStatus ==
    [][\A d \in Deliveries :
          (Appends(d) /\ LastRecord(records').ntype \in UnlistedTypes) =>
            \A s \in subs :
                s.id = LastRecord(records').sid =>
                    \E t \in subs' : t.id = s.id /\ t.status = s.status
      ]_vars

\* C5 witness: an EXPIRED subscription has processed a PRICE_INCREASE
\* notification and is still EXPIRED.
C5_Witness ==
    /\ Len(records) = 2
    /\ records[1].sid = records[2].sid
    /\ records[1].ntype = "EXPIRED"
    /\ records[2].ntype = "PRICE_INCREASE"
    /\ \E s \in subs : s.id = records[2].sid /\ s.status = "EXPIRED"

\* Delivery d ends with the error line of process_notification.
EndsInError(d) ==
    Acts(d) /\ pc[d] = "update" /\ log_line' = "Error processing notification"

EndsInFailure(d) ==
    /\ Acts(d)
    /\ pc'[d] = "done"
    /\ log_line' \in {"Error processing notification",
                      "Failed to get or create subscription",
                      "No originalTransactionId found in transaction info"}

\* C7: a delivery whose processing fails leaves either all of its effects or
\* none: the store is as it was before the delivery.
C7_NoPartialWrite ==
    [][\A d \in Deliveries :
          EndsInFailure(d) =>
            \/ Appends(d)
            \/ /\ ~loc[d].new_user
               /\ ~loc[d].new_sub
               /\ <<users, subs, records>>' = <<users, subs, records>>
      ]_vars

\* C8: in every reachable state, also when deliveries of several workers
\* interleave, there is at most one subscription for each original
\* transaction id.
C8_OneSubscriptionPerTxn ==
    \A s, t \in subs : s.txn = t.txn => s = t

\* C8 witness: a delivery that found no subscription for its transaction id is
\* about to create one while another delivery has just committed one.
C8_Witness ==
    \E d \in Deliveries :
        pc[d] = "create" /\ \E s \in subs : s.txn = loc[d].txn

\* The status the rows of subscription sid give, applied in commit order:
\* ACTIVE for a new subscription, then the table's status of the last row
\* whose type the table lists.
StatusByLog(sid) ==
    LET listed == {i \in DOMAIN records :
                     /\ records[i].sid = sid
                     /\ TableStatus(records[i].ntype, records[i].subtype) # ""}
        last == CHOOSE i \in listed : \A j \in listed : j <= i
    IN IF listed = {} THEN "ACTIVE"
       ELSE TableStatus(records[last].ntype, records[last].subtype)

\* C9: deduplication is by UUID only: the duplicate check ends a delivery
\* exactly when a row with its own UUID exists, rows of the same subscription
\* with other UUIDs do not count; and the status of every subscription is the
\* one given by the latest of its rows whose type is in the transition table.
C9_DedupByUuidOnly ==
    /\ [](\A s \in subs : s.status = StatusByLog(s.id))
    /\ [][\A d \in Deliveries :
             (Acts(d) /\ pc[d] = "dedup") =>
                (pc'[d] = "done" <=> HasRecord(records, loc[d].uuid))
         ]_vars

\* C9 witness: two notifications with different UUIDs for one subscription
\* have both been recorded, and the status is the one of the later.
C9_Witness ==
    /\ Len(records) = 2
    /\ records[1].sid = records[2].sid
    /\ records[1].uuid # records[2].uuid
    /\ records[1].ntype = "EXPIRED"
    /\ records[2].ntype = "REFUND"
    /\ \E s \in subs : s.id = records[2].sid /\ s.status = "REFUNDED"

\* C10: a notification for an unknown original transaction id that is
\* processed provisions exactly one subscription and stores exactly one row
\* under it; the subscription is created ACTIVE, and it is ACTIVE after a
\* SUBSCRIBED notification or one whose type the table does not list.
C10_FirstNotificationProvisions ==
    [][\A d \in Deliveries :
          /\ (Acts(d) /\ pc[d] = "create" /\ pc'[d] = "update") =>
                /\ Cardinality(subs') = Cardinality(subs) + 1
                /\ \A s \in subs : s.txn # loc[d].txn
                /\ \A s \in subs' \ subs : s.txn = loc[d].txn /\ s.status = "ACTIVE"
          /\ (Appends(d) /\ loc[d].new_sub) =>
                LET r == LastRecord(records')
                IN /\ Cardinality({s \in subs' : s.txn = loc[d].txn}) = 1
                   /\ \A s \in subs' : s.txn = loc[d].txn <=> s.id = r.sid
                   /\ Cardinality({i \in DOMAIN records' : records'[i].sid = r.sid}) = 1
                   /\ r.ntype \in UnlistedTypes \cup {"SUBSCRIBED"} =>
                        \A s \in subs' : s.id = r.sid => s.status = "ACTIVE"
      ]_vars

\* C10 witness: the first notification, of type SUBSCRIBED, has provisioned the
\* only subscription, which is ACTIVE, and the log holds its row alone.
C10_Witness ==
    /\ log_line = "Processed notification"
    /\ Cardinality(subs) = 1
    /\ Len(records) = 1
    /\ records[1].ntype = "SUBSCRIBED"
    /\ \A s \in subs : s.id = records[1].sid /\ s.status = "ACTIVE"

\* The store: what a delivery can leave behind.
Store == <<users, subs, records, applied>>

\* C11: deliveries with different UUIDs for one original transaction id that
\* are handled at the same time end as if one had been handled after the
\* other, so that neither notification is lost: a delivery that is about to
\* provision the subscription when another delivery has provisioned it in the
\* meantime does not end without the row of its notification.
C11_ConcurrentSameTxnSerialized ==
    [][\A d \in Deliveries :
          (/\ Acts(d)
           /\ pc[d] = "create"
           /\ \E s \in subs : s.txn = loc[d].txn
           /\ ~HasRecord(records, loc[d].uuid)
           /\ \A e \in Deliveries \ {d} : loc[e].uuid # loc[d].uuid)
            => (pc'[d] = "done" => HasRecord(records', loc[d].uuid))
      ]_vars

\* C12: of two deliveries with one UUID that have both passed the duplicate
\* check before either has committed, at most one commits a row and at most
\* one commits a subscription update: the one that comes to its commit when a
\* row with its UUID is there ends without any change of the store, and the
\* log never holds two rows with one UUID.
C12_AtMostOnceUnderOverlap ==
    /\ [](\A i, j \in DOMAIN records : records[i].uuid = records[j].uuid => i = j)
    /\ [][\A d \in Deliveries :
             (Acts(d) /\ pc[d] = "update" /\ HasRecord(records, loc[d].uuid))
                => /\ Store' = Store
                   /\ pc'[d] = "done"
                   /\ log_line' = "Error processing notification"
         ]_vars

\* C12 witness: two deliveries with one UUID for one subscription have both
\* passed the duplicate check; one has committed its row and its update, the
\* other is about to commit.
C12_Witness ==
    \E d \in Deliveries :
        /\ pc[d] = "update"
        /\ loc[d].uuid \in applied
        /\ \E i \in DOMAIN records :
              records[i].uuid = loc[d].uuid /\ records[i].sid = loc[d].sid

\* The positions of process_notification after its first database operation.
InReconciler == {"lookup", "user", "adduser", "create", "update"}

\* C13: a notification without notificationUUID is a silent no-op: the
\* delivery ends at the UUID check with the store as it was and is answered
\* 200; no delivery comes to a database operation without a UUID and no row
\* without a UUID is ever stored.
C13_MissingUuidNoOp ==
    /\ [](\A d \in Deliveries :
            pc[d] \in InReconciler \cup {"dedup"} => loc[d].uuid \in Uuids)
    /\ [](\A i \in DOMAIN records : records[i].uuid \in Uuids)
    /\ [][\A d \in Deliveries :
             (Acts(d) /\ pc[d] = "process" /\ loc[d].uuid = NoUuid)
                => /\ Store' = Store
                   /\ pc'[d] = "done"
                   /\ resp'[d] = 200
                   /\ log_line' = "Missing notificationUUID in payload"
         ]_vars

\* C13 witness: a notification without UUID that came to a store with a
\* subscription and a row has been answered 200.
C13_Witness ==
    /\ log_line = "Missing notificationUUID in payload"
    /\ \E d \in Deliveries : pc[d] = "done" /\ resp[d] = 200
    /\ Len(records) = 1
    /\ Cardinality(subs) = 1

\* C14: a notification whose transaction info gives no original transaction id
\* is dropped: the delivery ends at the lookup with the store as it was; only
\* deliveries that hold a transaction id come to the steps that write, and
\* every subscription has a transaction id and every row a subscription.
C14_NoTxnDropped ==
    /\ [](\A d \in Deliveries :
            pc[d] \in InReconciler \ {"lookup"} => loc[d].txn \in TxnIds)
    /\ [](\A s \in subs : s.txn \in TxnIds)
    /\ [](\A i \in DOMAIN records : \E s \in subs : s.id = records[i].sid)
    /\ [][\A d \in Deliveries :
             /\ (Acts(d) /\ pc[d] = "lookup" /\ loc'[d].txn \notin TxnIds)
                   => /\ Store' = Store
                      /\ pc'[d] = "done"
                      /\ log_line' = "No originalTransactionId found in transaction info"
             /\ (Acts(d) /\ Store' # Store)
                   => pc[d] \in InReconciler \ {"lookup"}
         ]_vars

\* C14 witness: a notification without original transaction id that came to a
\* store with a subscription and a row has been dropped.
C14_Witness ==
    /\ log_line = "No originalTransactionId found in transaction info"
    /\ \E d \in Deliveries : pc[d] = "done"
    /\ Len(records) = 1
    /\ Cardinality(subs) = 1

\* C15: when a delivery commits its row, auto_renew_status of the subscription
\* is the autoRenewStatus of the transaction info when that carries one, and
\* the stored value when it carries none.
C15_AutoRenewWrittenIfPresent ==
    [][\A d \in Deliveries :
          Appends(d) =>
            \A s \in subs :
                s.id = loc[d].sid =>
                    \E t \in subs' :
                        /\ t.id = s.id
                        /\ t.auto_renew_status =
                              IF loc[d].auto = "absent" THEN s.auto_renew_status
                              ELSE loc[d].auto = "true"
      ]_vars

\* C16: a delivery whose strict verification has failed because the key id of
\* the token was absent from the cache and still absent after the refresh, and
\* whose payload segment decodes, is decoded directly by the boundary and handed
\* on to the normaliser and the reconciler.  (A payload with notificationType
\* never comes to the direct decode of a 3-segment token: verify_jws returns it
\* before it reads the header.)
C16_DirectDecodeAfterKeyMiss ==
    [][\A d \in Deliveries :
          (/\ Acts(d)
           /\ pc[d] = "fallback"
           /\ loc[d].why = "KeyNotFound"
           /\ loc[d].tok.payload # Undecodable)
            => pc'[d] = "parse"
      ]_vars

\* A token the direct decode has nothing to recover from: no payload segment,
\* or one that does not decode.
Unrecoverable(tok) == tok.segs < 2 \/ tok.payload = Undecodable

\* C17: a token with fewer than 3 segments fails verification on its format,
\* without a look at the key cache; when it has no recoverable payload the
\* delivery ends after the direct decode without a call of the reconciler, with
\* the store as it was, and is answered 200.
C17_MalformedTokenDropped ==
    [][\A d \in Deliveries :
          /\ (Acts(d) /\ pc[d] = "idle" /\ loc'[d].tok.segs < 3)
                => /\ pc'[d] = "fallback"
                   /\ loc'[d].why = "InvalidFormat"
                   /\ key_cache' = key_cache
          /\ (Acts(d) /\ pc[d] = "fallback" /\ loc[d].tok.segs < 3
                      /\ Unrecoverable(loc[d].tok))
                => /\ pc'[d] = "done"
                   /\ resp'[d] = 200
                   /\ Store' = Store
      ]_vars

\* C17 witness: verification has failed on the format of a 2-segment token
\* whose payload segment does not decode, in a store that holds nothing.
C17_Witness ==
    \E d \in Deliveries :
        /\ pc[d] = "fallback"
        /\ loc[d].why = "InvalidFormat"
        /\ loc[d].tok.segs = 2
        /\ loc[d].tok.payload = Undecodable
        /\ records = <<>>
        /\ subs = {}

\* The calls of the handler in their order: the verifier (with its fetches of
\* keys and the direct decode after its failure), the normaliser, the
\* reconciler, the response.
Stage(p) ==
    CASE p = "idle" -> 0
      [] p \in {"fetch", "refresh", "fallback"} -> 1
      [] p = "parse" -> 2
      [] p = "process" -> 3
      [] p \in InReconciler \cup {"dedup"} -> 4
      [] OTHER -> 5

\* C18: every delivery runs verifier, normaliser, reconciler in this order: its
\* first step is the call of the verifier with the signed payload, it never
\* goes back to an earlier call, the reconciler is entered from the normaliser
\* only, the response is produced by the step that ends the delivery; and when
\* the verifier has returned claims, the reconciler is called next, with the
\* signed payload and the normalised claims.
C18_PipelineOrder ==
    [][\A d \in Deliveries :
          Acts(d) =>
            /\ pc[d] = "idle" => loc'[d].tok \in Tokens
            /\ Stage(pc'[d]) >= Stage(pc[d])
            /\ pc'[d] = "process" => pc[d] = "parse"
            /\ Stage(pc'[d]) = 4 => Stage(pc[d]) \in {3, 4}
            /\ resp'[d] # resp[d] => pc'[d] = "done"
            /\ pc[d] = "parse" =>
                  /\ pc'[d] = "process"
                  /\ loc'[d].tok = loc[d].tok
                  /\ loc'[d].claims \in {"notification", "data", "empty"}
      ]_vars

\* The tokens with 3 segments and a payload segment that decodes to a JSON
\* object with notificationType, data or summary.
MarkerTokens ==
    {tok \in Tokens :
        /\ tok.segs = 3
        /\ b64decode(tok) \in {"notification", "envelope", "opaque_data"}}

KeyedTokens ==
    {tok \in Tokens :
        tok.segs = 3 /\ tok.kid \in Kids /\ b64decode(tok) \in {"plain", Undecodable}}

\* The outcome of the signature check of token tok with the key of its key id.
CheckedWithItsKey(d, tok) ==
    IF tok.signer = tok.kid /\ tok.payload \in MappingKinds
    THEN pc'[d] = "parse" /\ loc'[d].claims = tok.payload
    ELSE pc'[d] = "fallback" /\ loc'[d].why = "JWTError"

\* C20: when the key id of a token is not among the keys get_apple_public_keys
\* returns, verify_jws empties the cache once and asks for the keys once more;
\* when the key id is not among the keys then fetched it fails without another
\* refresh, when it is the signature is checked with that key; and a key id
\* found at the first lookup is checked without any refresh.
C20_OneRefreshOnMiss ==
    /\ [](\A d \in Deliveries : loc[d].refreshes <= 1)
    /\ [][\A d \in Deliveries :
             (Acts(d) /\ loc'[d].tok \in KeyedTokens) =>
                LET tok == loc'[d].tok
                IN /\ (pc[d] = "idle" /\ key_cache # {}) =>
                        IF tok.kid \notin key_cache
                        THEN /\ pc'[d] = "refresh"
                             /\ key_cache' = {}
                             /\ loc'[d].refreshes = 1
                             /\ loc'[d].attempts = 0
                        ELSE /\ CheckedWithItsKey(d, tok)
                             /\ key_cache' = key_cache
                             /\ loc'[d].refreshes = 0
                   /\ (pc[d] = "fetch" /\ pc'[d] # "fetch") =>
                        \/ /\ pc'[d] = "refresh"
                           /\ key_cache' = {}
                           /\ loc'[d].refreshes = 1
                           /\ loc'[d].attempts = 0
                        \/ /\ tok.kid \in key_cache'
                           /\ CheckedWithItsKey(d, tok)
                           /\ loc'[d].refreshes = 0
                        \/ /\ pc'[d] = "fallback"
                           /\ loc'[d].why = "KeyFetchFailure"
                           /\ loc[d].attempts + 1 = MaxAttempts
                   /\ pc[d] = "refresh" =>
                        /\ loc'[d].refreshes = 1
                        /\ \/ /\ pc'[d] = "refresh"
                              /\ loc'[d].attempts = loc[d].attempts + 1
                              /\ key_cache' = key_cache
                           \/ /\ pc'[d] = "fallback"
                              /\ loc'[d].why = "KeyFetchFailure"
                              /\ loc[d].attempts + 1 = MaxAttempts
                              /\ key_cache' = key_cache
                           \/ /\ tok.kid \notin key_cache'
                              /\ pc'[d] = "fallback"
                              /\ loc'[d].why = "KeyNotFound"
                           \/ /\ tok.kid \in key_cache'
                              /\ CheckedWithItsKey(d, tok)
         ]_vars

\* C20 witness: verification of a token signed with key k2 has failed because
\* k2 was not in the cache and not among the keys fetched by the one refresh.
C20_Witness ==
    \E d \in Deliveries :
        /\ pc[d] = "fallback"
        /\ loc[d].why = "KeyNotFound"
        /\ loc[d].refreshes = 1
        /\ loc[d].tok.kid = "k2"
        /\ loc[d].tok.signer = "k2"
        /\ key_cache = {"k1"}

\* Delivery d takes a step of get_apple_public_keys (a retry leaves it where it
\* is).
Fetches(d) ==
    /\ pc[d] \in {"fetch", "refresh"}
    /\ <<pc'[d], loc'[d]>> # <<pc[d], loc[d]>>

\* C21: a call of get_apple_public_keys that has to fetch makes at most
\* MaxAttempts attempts: a failed attempt that is not the last is followed by
\* the next one, with the cache as it was; the failure is raised by the attempt
\* that fails as the last of MaxAttempts, and verify_jws raises it as its
\* ValueError; every other step is a successful attempt, which ends the call
\* with the keys published.
C21_ThreeFetchAttempts ==
    /\ [](\A d \in Deliveries : loc[d].attempts < MaxAttempts)
    /\ [][\A d \in Deliveries :
             Fetches(d) =>
                \/ /\ pc'[d] = pc[d]
                   /\ loc'[d].attempts = loc[d].attempts + 1
                   /\ key_cache' = key_cache
                \/ /\ pc'[d] = "fallback"
                   /\ loc'[d].why = "KeyFetchFailure"
                   /\ loc[d].attempts + 1 = MaxAttempts
                   /\ key_cache' = key_cache
                \/ /\ pc'[d] # pc[d]
                   /\ loc'[d].why # "KeyFetchFailure"
                   /\ loc'[d].attempts = 0
                   /\ key_cache' \in {published, {}}
                   /\ key_cache' = {} => (published = {} \/ pc'[d] = "refresh")
         ]_vars

\* C21 witness: verification has failed because the fetch of the keys failed
\* MaxAttempts times in a row.
C21_Witness ==
    \E d \in Deliveries :
        /\ pc[d] = "fallback"
        /\ loc[d].why = "KeyFetchFailure"
        /\ loc[d].tok.kid = "k1"
        /\ key_cache = {}

\* C22: a notification whose notificationType is absent or no member of the
\* enum is handled as one of type TEST: it passes the duplicate check like
\* every other (no second row for its UUID), its row is stored with type TEST
\* under its UUID, and the status of its subscription stays what it was.
C22_UnknownTypeIsTest ==
    /\ [](\A i, j \in DOMAIN records :
            (records[i].raw_data.notificationType \notin NotificationTypes
                /\ records[j].uuid = records[i].uuid) => i = j)
    /\ [](\A i \in DOMAIN records :
            records[i].raw_data.notificationType \notin NotificationTypes
                => records[i].ntype = "TEST")
    /\ [][\A d \in Deliveries :
             (Appends(d)
                /\ LastRecord(records').raw_data.notificationType \notin NotificationTypes)
                => /\ LastRecord(records').uuid = loc[d].uuid
                   /\ ~HasRecord(records, loc[d].uuid)
                   /\ log_line' = "Processed notification"
                        \/ log_line' = "Error processing notification"
                   /\ \A s \in subs :
                        s.id = loc[d].sid =>
                            \E t \in subs' : t.id = s.id /\ t.status = s.status
         ]_vars

\* C22 witness: a REFUNDED subscription has processed a notification with an
\* unknown type string; it is recorded as TEST and the subscription is still
\* REFUNDED.
C22_Witness ==
    /\ log_line = "Processed notification"
    /\ Len(records) = 2
    /\ records[1].ntype = "REFUND"
    /\ records[2].raw_data.notificationType = "NOT_A_TYPE"
    /\ records[2].ntype = "TEST"
    /\ records[2].sid = records[1].sid
    /\ \E s \in subs : s.id = records[2].sid /\ s.status = "REFUNDED"

\* A string of 3 segments whose payload segment is the base64url of a JSON
\* object.
WellFormed(value) ==
    value \in Tokens /\ value.segs = 3 /\ b64decode_url(value) \in MappingKinds

\* C23: for a payload whose data holds a well-formed 3-segment
\* signedTransactionInfo (and no signedRenewalInfo), _extract_transaction_info
\* returns the JSON object of the payload segment of that token, whether
\* verify_jws has verified it or has failed and the payload segment was decoded
\* directly.
C23_DirectDecodeSameInfo ==
    (/\ call.fn = "extract_transaction_info"
     /\ call.payload.data = "mapping"
     /\ call.payload.signedRenewalInfo = Absent
     /\ WellFormed(call.payload.signedTransactionInfo))
        => call.out = [from |-> "signedTransactionInfo",
                       info |-> b64decode_url(call.payload.signedTransactionInfo)]

\* C25: _extract_transaction_info returns a mapping for every payload mapping:
\* the JSON object of the payload segment of one of the two signed fields,
\* which then is a string of 3 segments, or the payload itself; and the
\* payload itself when data is no mapping or holds neither signed field.
C25_ExtractReturnsMapping ==
    call.fn = "extract_transaction_info" =>
        LET p == call.payload
            o == call.out
        IN /\ o.from \in {"signedRenewalInfo", "signedTransactionInfo", "payload"}
           /\ o.from = "payload" => o.info = "payload"
           /\ o.from = "signedRenewalInfo" =>
                /\ WellFormed(p.signedRenewalInfo)
                /\ o.info = b64decode_url(p.signedRenewalInfo)
           /\ o.from = "signedTransactionInfo" =>
                /\ WellFormed(p.signedTransactionInfo)
                /\ o.info = b64decode_url(p.signedTransactionInfo)
           /\ (p.data # "mapping"
                 \/ (p.signedRenewalInfo = Absent /\ p.signedTransactionInfo = Absent))
                => o.from = "payload"

\* C25 witness: signedRenewalInfo is no string and signedTransactionInfo is a
\* token whose payload segment is JSON but no object, which verify_jws returns
\* unverified: the payload itself has been returned.
C25_Witness ==
    /\ call.fn = "extract_transaction_info"
    /\ call.payload.signedRenewalInfo = NotAString
    /\ call.payload.signedTransactionInfo \in Tokens
    /\ call.payload.signedTransactionInfo.segs = 3
    /\ call.payload.signedTransactionInfo.payload = "marker_text"
    /\ call.payload.signedTransactionInfo.enc = "base64"
    /\ call.out.from = "payload"

\* The reference function of the normaliser: claims with notificationType as
\* they are; else the data mapping, and each of the three fields of the top
\* level that data does not hold.
Reference(claims) ==
    IF claims.notificationType
    THEN [kind |-> "payload",
          vals |-> [f \in Names |->
                      IF f \in claims.top \/ f = "notificationType"
                      THEN "top" ELSE "absent"]]
    ELSE [kind |-> "mapping",
          vals |-> [f \in Names |->
                      IF f \in claims.has THEN "data"
                      ELSE IF f \in claims.top \cap FieldNames THEN "top"
                      ELSE "absent"]]

\* C26: parse_notification_payload is the reference function on claims that
\* hold notificationType and on claims whose data is absent or a mapping (given
\* as such or as a string of JSON): no value of data is overwritten.
C26_NormaliseIsReference ==
    (/\ call.fn = "parse_notification_payload"
     /\ call.claims.notificationType
            \/ call.claims.data \in {"absent", "mapping", "json_mapping"})
        => call.out = Reference(call.claims)

\* C26 witness: data holds signedRenewalInfo, the top level holds
\* signedRenewalInfo and summary: the result has the signedRenewalInfo of data
\* and the summary of the top level.
C26_Witness ==
    /\ call.fn = "parse_notification_payload"
    /\ ~call.claims.notificationType
    /\ call.claims.data = "mapping"
    /\ call.claims.has = {"signedRenewalInfo"}
    /\ call.claims.top = {"signedRenewalInfo", "summary"}
    /\ call.out.kind = "mapping"
    /\ call.out.vals["signedRenewalInfo"] = "data"
    /\ call.out.vals["summary"] = "top"

\* C27: parse_notification_payload returns data as it is when data is a string
\* that is no JSON, also when the top level holds one of the three fields.
C27_OpaqueDataKept ==
    (/\ call.fn = "parse_notification_payload"
     /\ ~call.claims.notificationType
     /\ call.claims.data = "opaque")
        => call.out.kind = "opaque"

\* A step of the connection test, which is no step of a delivery, of a
\* function or of the issuer.
Tests ==
    /\ <<pc, loc, call, published>>' = <<pc, loc, call, published>>
    /\ <<connection, key_cache>>' # <<connection, key_cache>>

\* C24: the connection test changes nothing: no subscription, no record, no
\* user and not the key cache; and its response is an error that lists the
\* settings missing, an error about the key endpoint, or what it found about
\* the private key.
C24_ConnectionTestReadOnly ==
    [][Tests =>
          /\ Store' = Store
          /\ key_cache' = key_cache
          /\ connection'.status \in {"error", "warning", "success"}
          /\ connection'.missing # {} =>
                connection'.message = "Missing required Apple configuration"
      ]_vars

\* The tokens verify_jws checks with every key: 3 segments, no marker field
\* found in the payload, a header without key id.
NoKidTokens ==
    {tok \in Tokens :
        tok.segs = 3 /\ ~HasMarker(b64decode(tok)) /\ tok.kid = NoKid}

\* The outcome of the check of token tok with every key of keys.
CheckedWithAllKeys(d, tok, keys) ==
    IF \E k \in keys : tok.signer = k /\ b64decode_url(tok) \in MappingKinds
    THEN pc'[d] = "parse" /\ loc'[d].claims = b64decode_url(tok)
    ELSE pc'[d] = "fallback" /\ loc'[d].why = "NoKeyVerifies"

\* C28: a token without key id that the marker fields do not let through is
\* checked with every key get_apple_public_keys returns: its claims are
\* returned when one of the keys verifies it, verify_jws fails when none does,
\* and the cache is never emptied for it: no refresh is forced and a cache that
\* is not empty stays as it is.
C28_NoKidTriesAllKeys ==
    [][\A d \in Deliveries :
          ((Acts(d) \/ Fetches(d)) /\ loc'[d].tok \in NoKidTokens) =>
            /\ pc'[d] # "refresh"
            /\ loc'[d].refreshes = 0
            /\ (pc[d] = "idle" /\ key_cache # {}) =>
                  /\ key_cache' = key_cache
                  /\ CheckedWithAllKeys(d, loc'[d].tok, key_cache)
            /\ (pc[d] = "idle" /\ key_cache = {}) =>
                  /\ key_cache' = key_cache
                  /\ pc'[d] = "fetch"
            /\ (pc[d] = "fetch" /\ pc'[d] # "fetch"
                    /\ loc'[d].why # "KeyFetchFailure") =>
                  /\ key_cache' = published
                  /\ CheckedWithAllKeys(d, loc'[d].tok, published)
      ]_vars

\* C28 witness: a token without key id signed with k2 has been verified with a
\* cache that holds k1 and k2.
C28_Witness ==
    \E d \in Deliveries :
        /\ pc[d] = "parse"
        /\ loc[d].tok.kid = NoKid
        /\ loc[d].tok.signer = "k2"
        /\ loc[d].tok.payload = "plain"
        /\ loc[d].claims = "plain"
        /\ key_cache = {"k1", "k2"}

\* Delivery d takes the step in which an attempt to fetch the keys succeeds.
FetchSucceeds(d) ==
    /\ Fetches(d)
    /\ pc'[d] # pc[d]
    /\ ~(pc'[d] = "fallback" /\ loc'[d].why = "KeyFetchFailure")

\* C29: the keys are fetched into an empty cache only, so that after a
\* successful fetch the cache holds exactly the keys the issuer published then
\* (until verify_jws empties it again because the key id of its token is not
\* among them): after a forced refresh no key is cached that the issuer does
\* not publish, and the keys of two fetches are never cached together.
C29_CacheReplacedWholesale ==
    /\ [](\A d \in Deliveries : pc[d] \in {"fetch", "refresh"} => key_cache = {})
    /\ [][\A d \in Deliveries :
             FetchSucceeds(d) =>
                /\ pc[d] = "refresh" => key_cache' = published
                /\ pc[d] = "fetch" =>
                      \/ key_cache' = published
                      \/ /\ key_cache' = {}
                         /\ pc'[d] = "refresh"
                         /\ loc'[d].tok.kid \notin published
         ]_vars

\* C29 witness: a token with key id k2 has been verified after a forced
\* refresh, and the cache holds k2 alone, which is what the issuer publishes.
C29_Witness ==
    \E d \in Deliveries :
        /\ pc[d] = "parse"
        /\ loc[d].refreshes = 1
        /\ loc[d].tok.kid = "k2"
        /\ key_cache = {"k2"}
        /\ published = {"k2"}

\* C30: the keys are fetched only when the cache is empty, at the first call
\* of get_apple_public_keys or after verify_jws has emptied the cache because
\* the key id of its token was not among the keys returned; verify_jws with a
\* cache that is not empty and holds the key id (or for a token that needs no
\* key id) goes on with the cached keys, without a fetch, and leaves the cache
\* as it is.
C30_FetchOnlyReactively ==
    [][\A d \in Deliveries :
          /\ Fetches(d) => key_cache = {}
          /\ (Acts(d) /\ pc'[d] = "fetch") => (pc[d] = "idle" /\ key_cache = {})
          /\ (Acts(d) /\ pc'[d] = "refresh") =>
                /\ loc'[d].tok.kid \in Kids
                /\ loc'[d].tok.kid \notin (IF pc[d] = "idle" THEN key_cache ELSE published)
                /\ pc[d] = "idle" => key_cache # {}
                /\ key_cache' = {}
          /\ (Acts(d) /\ pc[d] = "idle" /\ key_cache # {} /\ pc'[d] # "refresh") =>
                /\ pc'[d] \in {"parse", "fallback"}
                /\ key_cache' = key_cache
      ]_vars

\* C30 witness: a token with key id k1 has been verified with the cached key
\* k1 and without a refresh, while the issuer publishes k2 alone: the keys
\* were not fetched.
C30_Witness ==
    \E d \in Deliveries :
        /\ pc[d] = "parse"
        /\ loc[d].tok.kid = "k1"
        /\ loc[d].tok.signer = "k1"
        /\ loc[d].claims = "plain"
        /\ loc[d].refreshes = 0
        /\ key_cache = {"k1"}
        /\ published = {"k2"}

\* C32: the notification log is append-only: every row is made with processed
\* true and no processing error, and every step leaves the rows there are as
\* they were, in their places, adding at most one row at the end.
C32_LogAppendOnly ==
    /\ [](\A i \in DOMAIN records :
            records[i].processed /\ records[i].processing_error = "None")
    /\ [][/\ Len(records') \in {Len(records), Len(records) + 1}
          /\ \A i \in DOMAIN records : records'[i] = records[i]
      ]_vars

\* C32 witness: a second row has been appended behind the first, by a later
\* delivery for the same subscription.
C32_Witness ==
    /\ Len(records) = 2
    /\ records[1].sid = records[2].sid
    /\ records[1].uuid # records[2].uuid
    /\ records[2].processed

\* C33: webhook processing never deletes a subscription and never changes the
\* original transaction id, owning user, product id, purchase date or
\* environment of one there is: after every step each subscription is still
\* there with these fields as they were, so that only status, expires_date
\* and auto_renew_status can differ.
C33_SubscriptionFrame ==
    [][\A s \in subs : \E t \in subs' :
          /\ t.id = s.id
          /\ t.txn = s.txn
          /\ t.user_id = s.user_id
          /\ t.product_id = s.product_id
          /\ t.purchase_date = s.purchase_date
          /\ t.environment = s.environment
      ]_vars

\* C33 witness: a later notification has changed status and auto-renew flag
\* of a subscription an earlier one had created.
C33_Witness ==
    /\ Len(records) = 2
    /\ \E s \in subs :
          /\ records[1].sid = s.id /\ records[2].sid = s.id
          /\ s.status = "REFUNDED" /\ s.auto_renew_status
          /\ s.product_id = "productId" /\ s.environment = "Production"

\* C34: expires_date of a subscription there is changes only through
\* DID_RENEW: the step that commits a DID_RENEW notification whose
\* transaction info carries expiresDate sets it to that value, and every other
\* step (a DID_RENEW without expiresDate, any other type, a failed commit)
\* leaves it as it was.
C34_ExpiresOnlyByRenewal ==
    [][\A s \in subs : \A t \in subs' :
          t.id = s.id =>
            IF \E d \in Deliveries :
                 /\ Appends(d) /\ loc[d].sid = s.id
                 /\ LastRecord(records').ntype = "DID_RENEW"
                 /\ loc[d].exp # 0
            THEN \E d \in Deliveries : Appends(d) /\ t.expires_date = loc[d].exp
            ELSE t.expires_date = s.expires_date
      ]_vars

\* C34 witness: a DID_RENEW with expiresDate has been committed for a
\* subscription an earlier notification had created, which holds that date.
C34_Witness ==
    /\ Len(records) = 2
    /\ records[2].ntype = "DID_RENEW"
    /\ \E s \in subs :
          /\ records[1].sid = s.id /\ records[2].sid = s.id
          /\ s.expires_date = 1

\* C35: no status is terminal: whenever a delivery with a fresh UUID is about
\* to commit for a subscription, whatever the status of that subscription,
\* for each of the six statuses there is a notification type with which the
\* step leaves the subscription in that status; so every status is reachable,
\* from every status, in one notification.
C35_NoStatusTerminal ==
    \A d \in Deliveries :
        (pc[d] = "update" /\ ~HasRecord(records, loc[d].uuid)) =>
            \A status \in Statuses :
                ENABLED (/\ update_subscription(d, AllInputs)
                         /\ \E t \in subs' : t.id = loc[d].sid /\ t.status = status)

\* C35 witness: a REVOKED subscription has been returned to ACTIVE by a later
\* DID_RENEW notification with another UUID.
C35_Witness ==
    /\ Len(records) = 2
    /\ records[1].sid = records[2].sid
    /\ records[1].uuid # records[2].uuid
    /\ records[1].ntype = "REVOKE"
    /\ records[2].ntype = "DID_RENEW"
    /\ \E s \in subs : s.id = records[2].sid /\ s.status = "ACTIVE"

\* C37: a refresh forced by an unknown key id discards the cached keys before
\* it fetches: while the refresh runs the cache is empty; when its last
\* attempt fails, after MaxAttempts, the cache stays empty (the keys it held
\* are not put back) and verify_jws fails; and the next delivery whose token
\* needs keys finds the cache empty and fetches.
C37_FailedRefreshLeavesCacheEmpty ==
    /\ [](\A d \in Deliveries :
            (pc[d] = "refresh"
                \/ (pc[d] = "fallback" /\ loc[d].why = "KeyFetchFailure"))
            => key_cache = {})
    /\ [][\A d \in Deliveries :
             /\ (pc[d] = "refresh" /\ pc'[d] = "fallback"
                    /\ loc'[d].why = "KeyFetchFailure")
                  => /\ loc[d].attempts + 1 = MaxAttempts
                     /\ key_cache' = {}
             /\ (Acts(d) /\ pc[d] = "idle" /\ key_cache = {}
                    /\ loc'[d].tok \in KeyedTokens \cup NoKidTokens)
                  => pc'[d] = "fetch"
         ]_vars

\* C37 witness: the refresh forced by the unknown key id k2 has failed: the
\* second delivery stands with the failure and an empty cache while the issuer
\* publishes k1.
C37_Witness ==
    /\ pc[2] = "fallback"
    /\ loc[2].why = "KeyFetchFailure"
    /\ loc[2].refreshes = 1
    /\ loc[2].tok.kid = "k2"
    /\ key_cache = {}
    /\ published = {"k1"}

\* C36: every delivery ends with a response whatever the key endpoint does: a
\* call of get_apple_public_keys makes at most MaxAttempts attempts to fetch,
\* verify_jws calls it at most twice, and a delivery that has begun is in the
\* end answered, with 200: also one all of whose attempts failed.
C36_DeliveryTerminates ==
    /\ [](\A d \in Deliveries :
            loc[d].attempts < MaxAttempts /\ loc[d].refreshes <= 1)
    /\ \A d \in Deliveries :
          (pc[d] \notin {"idle", "done"}) ~> (pc[d] = "done" /\ resp[d] = 200)

\* C36 witness: every attempt of the only call of get_apple_public_keys has
\* failed for a token without key id, though the issuer publishes both keys;
\* the delivery goes on with the failure.
C36_Witness ==
    \E d \in Deliveries :
        /\ pc[d] = "fallback"
        /\ loc[d].why = "KeyFetchFailure"
        /\ loc[d].refreshes = 0
        /\ loc[d].tok.kid = NoKid
        /\ published = {"k1", "k2"}

\* Delivery d takes a step of verify_jws, from its call to its return.
Verifies(d) == (Acts(d) /\ pc[d] = "idle") \/ Fetches(d)

C38_InfosFromOneSubEnvelope ==
    /\ (/\ call.fn = "extract_transaction_info"
        /\ call.payload.signedRenewalInfo # Absent
        /\ call.out.from = "signedTransactionInfo")
          => ~(/\ call.payload.signedRenewalInfo \in Tokens
               /\ call.payload.signedRenewalInfo.segs = 3
               /\ b64decode(call.payload.signedRenewalInfo) \in MappingKinds)
    /\ call.fn = "transaction_infos"
          => /\ call.out.expires_date \in {"", call.out.subscription}
             /\ call.out.auto_renew_status \in {"", call.out.subscription}

\* C39: for claims without notificationType at the top level whose data is
\* absent or a mapping, process_notification reads notificationUUID and
\* notificationType from the data mapping and not from the top level: without
\* notificationUUID in data the notification is dropped before any record,
\* also when the top level holds one; with it the notification goes on, with
\* the type of data, and as TEST when data holds no notificationType.
C39_ReadsNormalisedData ==
    (/\ call.fn = "parse_notification_payload"
     /\ ~call.claims.notificationType
     /\ call.claims.data \in {"absent", "mapping", "json_mapping"})
        => IF "notificationUUID" \in call.claims.has
           THEN /\ call.read.outcome = "goes on"
                /\ call.read.uuid = "data"
                /\ call.read.ntype = IF "notificationType" \in call.claims.has
                                     THEN "EXPIRED" ELSE "TEST"
           ELSE /\ call.read.outcome = "dropped"
                /\ call.read.uuid = "absent"

\* C39 witness: the top level holds notificationUUID, data is a mapping
\* without it: the notification has been dropped.
C39_Witness ==
    /\ call.fn = "parse_notification_payload"
    /\ ~call.claims.notificationType
    /\ call.claims.data = "mapping"
    /\ "notificationUUID" \in call.claims.top
    /\ call.claims.has = {"signedTransactionInfo"}
    /\ call.read.outcome = "dropped"

====
